---- MODULE Spec2Model ----
(***************************************************************************)
(* LifeFit backend: the real-time socket layer (handshake, the             *)
(* activeConnections map, per-user rooms, sendToUser, the periodic         *)
(* cleanup of inactive connections) and the goal lifecycle (the Goal       *)
(* model's pre-save hook and instance methods, and the goal REST routes).  *)
(*                                                                         *)
(* Numbers that the code keeps as JavaScript doubles (progress values,     *)
(* target values) are kept here as integers counting HALVES, so 65 is      *)
(* written 130 and 32.5 is written 65.  Percentages are plain integers.    *)
(* Time is counted in units of 15 minutes, except the clock of the rate    *)
(* limiters, which counts units of 5 minutes.  The health-data and workout *)
(* routes are modelled with their collections; weights and calories are    *)
(* plain integers, dates are instants counted in hours.  A request         *)
(* handler is one step, except where a specification follows the progress  *)
(* route from await to await.                                              *)
(***************************************************************************)
EXTENDS Integers, Sequences, FiniteSets, TLC

\* ------------------------------------------------------------------ bounds
MaxSockets == 3
MaxTime == 3
MaxMilestones == 1
MaxNotes == 1
\* largest progress value (100, in halves) tried on the percentage computation
MaxValue == 200
\* publishes (progress requests and goal:progress events) followed one by one
MaxPublishes == 2
\* milestone records followed where the history of a goal is looked at
MaxHistory == 2

\* requests the rate limiters let through, all keys together
MaxAdmitted == 7
\* how far the rate limiters' clock runs
MaxClock == 3

\* ------------------------------------------------------- program constants
\* sensitiveOperationLimit(windowMs = 15 * 60 * 1000, max = 5): the window
\* in units of 5 minutes, and the attempts it admits
windowMs == 3
max == 5
\* 30 * 60 * 1000 ms, in units of 15 minutes
inactiveThreshold == 2

\* ------------------------------------------------------------ value spaces
\* accounts of the User collection that are active
Users == {"u1", "u2"}
\* an account whose isActive flag is false
InactiveUsers == {"u3"}
\* req.user.role
Role == [u \in Users |-> IF u = "u2" THEN "admin" ELSE "user"]
NoUser == "none"
SocketIds == 1..MaxSockets
NoSocket == 0
Undefined == -1

\* handshake credentials: none, one jwt.verify rejects (malformed or
\* expired), or a token signed for an account id
NoToken == [kind |-> "none", id |-> NoUser]
BadToken == [kind |-> "bad", id |-> NoUser]
ExpiredToken == [kind |-> "expired", id |-> NoUser]
TokenOf(u) == [kind |-> "valid", id |-> u]
Tokens == {NoToken, BadToken, ExpiredToken} \cup {TokenOf(u) : u \in Users \cup InactiveUsers \cup {"ghost"}}

Pubs == 1..MaxPublishes
NoRequest == [pc |-> "idle"]
\* the user whose concurrent publishes are followed
RaceUsers == {"u1"}

GoalIds == {"g1"}
NoGoal == [exists |-> FALSE]
Statuses == {"active", "paused", "completed", "cancelled", "failed"}
GoalTypes == {"target", "habit", "milestone"}
\* target.value offered at creation (65), in halves
TargetValues == {130}
\* progress values offered to updateProgress (32.5, 65, 100), in halves
ProgressValues == {65, 130, 200}
\* progress values offered where milestones are looked at (0, 32.5, 100)
MilestoneValues == {0, 65, 200}
\* progress values offered where connections are modelled too (32.5, 65)
SyncValues == {65, 130}
Absent == "absent"

\* the rate-limited routes followed, the addresses requests come from, and
\* the keys they are counted under
Limiters == {"login", "change-password"}
Ips == {"10.0.0.1"}
Keys == Ips \X (Users \cup {NoUser})

HealthIds == {"h1", "h2"}
NoEntry == [exists |-> FALSE]
WorkoutIds == {"w1"}
NoWorkout == [exists |-> FALSE]
\* the date strings offered in request bodies and as the date of a workout
DateStrings == {"2024-01-01T00:00:00Z", "2024-01-01T01:00:00+01:00", "2024-01-01T10:00:00Z"}
\* the date offered where ownership is followed
OwnDates == {"2024-01-01T00:00:00Z"}
\* metrics.weight.value offered at creation: 10 is below the minimum of 20
Weights == {10, 70}
\* metrics.weight.value offered to an update
NewWeights == {10, 75}
\* caloriesBurned of a workout's exercises
Calories == {300}
\* target values (0.5, 1.5, 4, 65) for the percentage computation, in halves
PctTargets == {1, 3, 8, 130}

VARIABLES
    now,               \* the clock read by new Date()
    nextSocketId,      \* the id the transport gives the next socket
    sockUser,          \* socket.userId, NoUser before the handshake succeeded
    connected,         \* sockets whose connection is open (members of user:<id> rooms)
    activeConnections, \* the module-level Map: userId -> connection record
    goals,             \* the Goal collection
    healthData,        \* the HealthData collection
    workouts,          \* the Workout collection
    delivered,         \* <<socket id, event>> packets written by the last step, in order
    emitted,           \* <<userId, event>> sendToUser calls of the last step, in order
    response,          \* HTTP status of the last REST step (0 when it was none)
    lastSeen,          \* observer: when each open socket connected or last sent an event
    faulty,            \* sockets on which socket.emit throws
    attempts,          \* per limiter, the Map from key to the times it stored
    admitted,          \* observer: per limiter, key and time, the requests let through
    clock,             \* Date.now() as the rate limiters read it, in units of 5 minutes
    pending,           \* progress requests between their awaits
    nextPub,           \* observer: the number the next publish is given
    progressLog,       \* observer: per socket, the <<publish, event>> it received, in order
    lastOp             \* the last step taken

vars == <<now, nextSocketId, sockUser, connected, activeConnections, goals,
          healthData, workouts, delivered, emitted, response, lastSeen, faulty, attempts,
          admitted, clock, pending, nextPub,
          progressLog, lastOp>>

raceVars == <<pending, nextPub, progressLog>>
storeVars == <<healthData, workouts>>
limitVars == <<attempts, admitted, clock>>

NoConn == [socketId |-> NoSocket, connectedAt |-> Undefined,
           lastActivity |-> Undefined, status |-> "undefined"]

Op(op, user, socket, goal, from) ==
    [op |-> op, user |-> user, socket |-> socket, goal |-> goal, from |-> from]

Min(a, b) == IF a < b THEN a ELSE b

\* ---------------------------------------------------- socket.io primitives
\* members of the room `user:${userId}`: joined at connection, left at close
Room(u) == {s \in connected : sockUser[s] = u}

\* ascending enumeration of a set of socket ids
RECURSIVE SetToSeq(_)
SetToSeq(S) ==
    IF S = {} THEN <<>>
    ELSE LET m == CHOOSE x \in S : \A y \in S : x <= y
         IN <<m>> \o SetToSeq(S \ {m})

\* an emit to the whole room, the sender included
BroadcastFrom_WholeRoom(s, u, ev) == [i \in 1..Cardinality(Room(u)) |->
                                        <<SetToSeq(Room(u))[i], ev>>]

\* socket.to(room).emit(ev): every member of the room except the sender
BroadcastFrom(s, u, ev) == [i \in 1..Cardinality(Room(u) \ {s}) |->
                              <<SetToSeq(Room(u) \ {s})[i], ev>>]

\* socket.emit(ev) on a server-side socket: written only while it is open
SocketEmit(s, ev) == IF s \in connected THEN << <<s, ev>> >> ELSE <<>>

\* ------------------------------------------------------------- handshake
\* the handshake without its user.isActive test
authenticateSocket_NoActiveCheck(token) ==
    IF token.kind = "none" THEN "Authentication error: No token provided"
    ELSE IF token.kind \in {"bad", "expired"} THEN "Authentication error: Invalid token"
    ELSE IF token.id \notin Users \cup InactiveUsers THEN "Authentication error: Invalid user"
    ELSE "ok"

\* authenticateSocket: the Error handed to next(), or "ok"
authenticateSocket(token) ==
    IF token.kind = "none" THEN "Authentication error: No token provided"
    ELSE IF token.kind \in {"bad", "expired"} THEN "Authentication error: Invalid token"
    ELSE IF token.id \notin Users THEN "Authentication error: Invalid user"
    ELSE "ok"

\* io.use(authenticateSocket) refusing the socket: the connection handler never runs
HandshakeRejected(token) ==
    /\ authenticateSocket(token) # "ok"
    /\ lastOp' = Op("handshake-rejected", NoUser, NoSocket, "none", authenticateSocket(token))
    /\ delivered' = <<>>
    /\ emitted' = <<>>
    /\ response' = 0
    /\ UNCHANGED <<storeVars, raceVars, faulty, limitVars, lastSeen, now, nextSocketId, sockUser, connected, activeConnections, goals>>

\* io.on('connection'): store the connection under the userId, join the room, welcome
Connect(token) ==
    /\ authenticateSocket(token) = "ok"
    /\ nextSocketId <= MaxSockets
    /\ LET s == nextSocketId
           u == token.id
       IN /\ sockUser' = [sockUser EXCEPT ![s] = u]
          /\ connected' = connected \cup {s}
          /\ activeConnections' = [activeConnections EXCEPT ![u] =
                 [socketId |-> s, connectedAt |-> now,
                  lastActivity |-> Undefined, status |-> "undefined"]]
          /\ lastSeen' = [lastSeen EXCEPT ![s] = now]
          /\ delivered' = << <<s, "connected">> >>
          /\ lastOp' = Op("connect", u, s, "none", "none")
    /\ nextSocketId' = nextSocketId + 1
    /\ emitted' = <<>>
    /\ response' = 0
    /\ UNCHANGED <<storeVars, raceVars, faulty, limitVars, now, goals>>

\* a delete that removes nothing
unregister_NoDelete(reg, u) == reg

\* activeConnections.delete(userId) on the map reg
unregister(reg, u) == [reg EXCEPT ![u] = NoConn]

\* socket.on('disconnect'): the socket has left its rooms; delete the user's
\* entry and notify the other devices
Disconnect(s) ==
    /\ s \in connected
    /\ connected' = connected \ {s}
    /\ activeConnections' = unregister(activeConnections, sockUser[s])
    /\ delivered' = BroadcastFrom(s, sockUser[s], "device:disconnected")
    /\ lastSeen' = [lastSeen EXCEPT ![s] = Undefined]
    /\ lastOp' = Op("disconnect", sockUser[s], s, "none", "none")
    /\ emitted' = <<>>
    /\ response' = 0
    /\ UNCHANGED <<storeVars, raceVars, faulty, limitVars, now, nextSocketId, sockUser, goals>>

\* an emit to the stored connection of every user
sendToUser_EveryRecord(u, ev) ==
    LET others == {activeConnections[v].socketId : v \in Users} \cap connected
    IN [i \in 1..Cardinality(others) |-> <<SetToSeq(others)[i], ev>>]

\* sendToUser(userId, event, data): the packets it writes
sendToUser(u, ev) ==
    IF activeConnections[u] # NoConn
    THEN SocketEmit(activeConnections[u].socketId, ev)
    ELSE <<>>

\* sendToUser(userId, event, data) throws: connection.socket.emit throws and
\* nothing in sendToUser catches it
sendToUserThrows(u) ==
    /\ activeConnections[u] # NoConn
    /\ activeConnections[u].socketId \in faulty

\* socket.emit on socket s starts throwing (a delivery failure)
Fault(s) ==
    /\ s \in connected
    /\ s \notin faulty
    /\ faulty' = faulty \cup {s}
    /\ lastOp' = Op("fault", sockUser[s], s, "none", "none")
    /\ delivered' = <<>>
    /\ emitted' = <<>>
    /\ response' = 0
    /\ UNCHANGED <<lastSeen, now, nextSocketId, sockUser, connected, activeConnections, goals>>
    /\ UNCHANGED <<raceVars, storeVars, limitVars>>

\* the packets of socket.on('goal:progress'): socket.to(room).emit, then socket.emit
GoalProgressPackets(s, completed) ==
    BroadcastFrom(s, sockUser[s], "goal:progress-updated")
    \o (IF completed THEN SocketEmit(s, "goal:completed") ELSE <<>>)

\* socket.on('goal:progress'): relay to the other devices, celebrate on the sender
OnGoalProgress(s, completed) ==
    /\ s \in connected
    /\ delivered' = GoalProgressPackets(s, completed)
    /\ lastOp' = Op("goal:progress", sockUser[s], s, "none",
                    IF completed THEN "completed" ELSE "none")
    /\ lastSeen' = [lastSeen EXCEPT ![s] = now]
    /\ emitted' = <<>>
    /\ response' = 0
    /\ UNCHANGED <<storeVars, raceVars, faulty, limitVars, now, nextSocketId, sockUser, connected, activeConnections, goals>>

\* the inbound events relayed under another name and nothing else
PlainRelays == {"health-data:update", "workout:start", "workout:update",
                "notification:read", "typing:start", "typing:stop",
                "sync:request", "sync:response"}

\* the name under which an inbound event reaches the other devices
Relayed(ev) ==
    CASE ev = "health-data:update" -> "health-data:updated"
      [] ev = "workout:start" -> "workout:started"
      [] ev = "workout:update" -> "workout:updated"
      [] ev = "notification:read" -> "notification:marked-read"
      [] ev = "typing:start" -> "typing:user-started"
      [] ev = "typing:stop" -> "typing:user-stopped"
      [] ev = "sync:request" -> "sync:requested"
      [] ev = "sync:response" -> "sync:data"

\* socket.on(ev) for the plain relays: socket.to(room).emit(Relayed(ev))
OnRelay(s, ev) ==
    /\ s \in connected
    /\ delivered' = BroadcastFrom(s, sockUser[s], Relayed(ev))
    /\ lastOp' = Op(ev, sockUser[s], s, "none", "none")
    /\ lastSeen' = [lastSeen EXCEPT ![s] = now]
    /\ emitted' = <<>>
    /\ response' = 0
    /\ UNCHANGED <<storeVars, raceVars, faulty, limitVars, now, nextSocketId, sockUser, connected, activeConnections, goals>>

\* socket.on('workout:complete'): relay to the other devices, celebrate on the sender
OnWorkoutComplete(s) ==
    /\ s \in connected
    /\ delivered' = BroadcastFrom(s, sockUser[s], "workout:completed")
                     \o SocketEmit(s, "workout:celebration")
    /\ lastOp' = Op("workout:complete", sockUser[s], s, "none", "none")
    /\ lastSeen' = [lastSeen EXCEPT ![s] = now]
    /\ emitted' = <<>>
    /\ response' = 0
    /\ UNCHANGED <<storeVars, raceVars, faulty, limitVars, now, nextSocketId, sockUser, connected, activeConnections, goals>>

\* socket.on('custom:event'): relayed only if (data.type && data.payload)
OnCustomEvent(s, type, payload) ==
    /\ s \in connected
    /\ delivered' = IF type /\ payload
                     THEN BroadcastFrom(s, sockUser[s], "custom:event")
                     ELSE <<>>
    /\ lastOp' = Op("custom:event", sockUser[s], s, "none",
                    IF type /\ payload THEN "typed" ELSE "untyped")
    /\ lastSeen' = [lastSeen EXCEPT ![s] = now]
    /\ emitted' = <<>>
    /\ response' = 0
    /\ UNCHANGED <<storeVars, raceVars, faulty, limitVars, now, nextSocketId, sockUser, connected, activeConnections, goals>>

\* socket.on('presence:update'): stamp the user's entry, relay to the other devices
OnPresenceUpdate(s, status) ==
    /\ s \in connected
    /\ activeConnections' =
         IF activeConnections[sockUser[s]] # NoConn
         THEN [activeConnections EXCEPT ![sockUser[s]].lastActivity = now,
                                        ![sockUser[s]].status =
                                            IF status = Absent THEN "active" ELSE status]
         ELSE activeConnections
    /\ lastSeen' = [lastSeen EXCEPT ![s] = now]
    /\ delivered' = BroadcastFrom(s, sockUser[s], "presence:updated")
    /\ lastOp' = Op("presence:update", sockUser[s], s, "none", "none")
    /\ emitted' = <<>>
    /\ response' = 0
    /\ UNCHANGED <<storeVars, raceVars, faulty, limitVars, now, nextSocketId, sockUser, connected, goals>>

\* ------------------------------------------------------ periodic cleanup
\* staleness taken from the time of connection alone
Inactive_SinceConnect(u) ==
    /\ activeConnections[u] # NoConn
    /\ now - activeConnections[u].connectedAt > inactiveThreshold

\* the entries the setInterval callback finds inactive
Inactive(u) ==
    /\ activeConnections[u] # NoConn
    /\ LET c == activeConnections[u]
           lastActivity == IF c.lastActivity # Undefined THEN c.lastActivity
                           ELSE c.connectedAt
       IN now - lastActivity > inactiveThreshold

\* sockets closed by connection.socket.disconnect(true)
Reaped == {activeConnections[u].socketId : u \in {x \in Users : Inactive(x)}} \cap connected

\* ascending enumeration of a set of user ids
RECURSIVE UsersToSeq(_)
UsersToSeq(S) ==
    IF S = {} THEN <<>>
    ELSE LET m == CHOOSE x \in S : \A y \in S : x = y \/ (x = "u1")
         IN <<m>> \o UsersToSeq(S \ {m})

\* device:disconnected packets of the disconnect handlers the sweep triggers
RECURSIVE ReapNotices(_)
ReapNotices(us) ==
    IF us = <<>> THEN <<>>
    ELSE LET u == Head(us)
             s == activeConnections[u].socketId
         IN (IF s \in connected
             THEN BroadcastFrom(s, u, "device:disconnected") ELSE <<>>)
            \o ReapNotices(Tail(us))

\* a sweep whose closes notify nobody
Sweep_Silent ==
    /\ connected' = connected \ Reaped
    /\ activeConnections' = [u \in Users |->
           IF Inactive(u)
           THEN unregister(unregister(activeConnections, u), u)[u]
           ELSE activeConnections[u]]
    /\ delivered' = <<>>
    /\ lastSeen' = [s \in SocketIds |-> IF s \in Reaped THEN Undefined ELSE lastSeen[s]]
    /\ lastOp' = Op("sweep", NoUser, NoSocket, "none", "none")
    /\ emitted' = <<>>
    /\ response' = 0
    /\ UNCHANGED <<storeVars, raceVars, faulty, limitVars, now, nextSocketId, sockUser, goals>>

\* the setInterval callback: disconnect and delete every inactive entry
Sweep ==
    /\ connected' = connected \ Reaped
    /\ activeConnections' = [u \in Users |->
           IF Inactive(u)
           THEN unregister(unregister(activeConnections, u), u)[u]
           ELSE activeConnections[u]]
    /\ delivered' = ReapNotices(UsersToSeq({u \in Users : Inactive(u)}))
    /\ lastSeen' = [s \in SocketIds |-> IF s \in Reaped THEN Undefined ELSE lastSeen[s]]
    /\ lastOp' = Op("sweep", NoUser, NoSocket, "none", "none")
    /\ emitted' = <<>>
    /\ response' = 0
    /\ UNCHANGED <<storeVars, raceVars, faulty, limitVars, now, nextSocketId, sockUser, goals>>

\* time passes
Tick ==
    /\ now < MaxTime
    /\ now' = now + 1
    /\ lastOp' = Op("tick", NoUser, NoSocket, "none", "none")
    /\ delivered' = <<>>
    /\ emitted' = <<>>
    /\ response' = 0
    /\ UNCHANGED <<storeVars, raceVars, faulty, limitVars, lastSeen, nextSocketId, sockUser, connected, activeConnections, goals>>

\* ------------------------------------------------------------- Goal model
\* Math.round(n / d) for d > 0: the nearest integer, halves rounded up
\* (exact arithmetic: the double rounding of n / d * 100 is not followed)
Round(n, d) == (2 * n + d) \div (2 * d)

\* the hook's percentage with the Math.min(..., 100) left out
Percentage_NoClamp(current, target) == Round(current * 100, target)

\* the percentage the pre-save hook stores: Math.min(Math.round(current / target * 100), 100)
Percentage(current, target) == Min(Round(current * 100, target), 100)

\* the hook without its auto-completion branch
preSave_NoAutoComplete(g) ==
    IF g.type = "target" /\ g.target # 0
    THEN [g EXCEPT !.percentage = Percentage(g.current, g.target)]
    ELSE g

\* goalSchema.pre('save'): recompute the percentage of a target goal and
\* auto-complete an active goal that reached its target
preSave(g) ==
    IF g.type = "target" /\ g.target # 0
    THEN LET pct == Percentage(g.current, g.target)
             done == pct >= 100 /\ g.status = "active"
         IN [g EXCEPT !.percentage = pct,
                      !.status = IF done THEN "completed" ELSE @,
                      !.completedAt = IF done THEN now ELSE @]
    ELSE g

\* Goal.create(body) with the schema defaults, saved
newGoal(u, type, target) ==
    preSave([exists |-> TRUE, user |-> u, type |-> type, target |-> target,
             status |-> "active", current |-> 0, percentage |-> 0,
             completedAt |-> Undefined, milestones |-> <<>>, notes |-> <<>>])

\* a method that records a milestone only when a note comes with the value
updateProgress_NoteOnly(g, newValue, note) ==
    preSave([g EXCEPT !.current = newValue,
                      !.milestones = IF note
                                     THEN Append(@, [value |-> newValue, note |-> note])
                                     ELSE @])

\* goalSchema.methods.updateProgress(newValue, note)
updateProgress(g, newValue, note) ==
    preSave([g EXCEPT !.current = newValue,
                      !.milestones = IF note \/ newValue % 20 = 0
                                     THEN Append(@, [value |-> newValue, note |-> note])
                                     ELSE @])

\* a complete whose fields are stored as set, without the save hook
complete_NoHook(g, note) ==
    [g EXCEPT !.status = "completed",
              !.completedAt = now,
              !.percentage = 100,
              !.notes = IF note THEN Append(@, "Completed") ELSE @]

\* goalSchema.methods.complete(note)
complete(g, note) ==
    preSave([g EXCEPT !.status = "completed",
                      !.completedAt = now,
                      !.percentage = 100,
                      !.notes = IF note THEN Append(@, "Completed") ELSE @])

\* goalSchema.methods.pause(reason)
pause(g, reason) ==
    preSave([g EXCEPT !.status = "paused",
                      !.notes = IF reason THEN Append(@, "Paused") ELSE @])

\* goalSchema.methods.resume()
resume(g) == preSave([g EXCEPT !.status = "active"])

\* ------------------------------------------------------------ goal routes
\* the middleware without its owner-or-admin test
checkOwnershipOf_NoOwnerTest(coll, u, id) ==
    IF ~coll[id].exists THEN 404 ELSE 200

\* checkOwnership(Model) on a collection: the status it answers with, 200
\* when it calls next()
checkOwnershipOf(coll, u, id) ==
    IF ~coll[id].exists THEN 404
    ELSE IF coll[id].user # u /\ Role[u] # "admin" THEN 403
    ELSE 200

\* checkOwnership(Goal)
checkOwnership(u, id) == checkOwnershipOf(goals, u, id)

\* a request answered without touching the goal or the sockets
Answer(op, u, id, code) ==
    /\ response' = code
    /\ lastOp' = Op(op, u, NoSocket, id,
                    IF goals[id].exists THEN goals[id].status ELSE "none")
    /\ delivered' = <<>>
    /\ emitted' = <<>>
    /\ UNCHANGED <<storeVars, raceVars, faulty, limitVars, lastSeen, now, nextSocketId, sockUser, connected, activeConnections, goals>>

\* a request that saved goal g and then called sendToUser for each of evs, in
\* order, inside the route's try block: a sendToUser that throws ends the
\* calls, and the catch hands the error to the error handler, which answers 500
Saved(op, u, id, g, code, evs) ==
    /\ goals' = [goals EXCEPT ![id] = g]
    /\ response' = IF Len(evs) > 0 /\ sendToUserThrows(u) THEN 500 ELSE code
    /\ lastOp' = Op(op, u, NoSocket, id,
                    IF goals[id].exists THEN goals[id].status ELSE "none")
    /\ emitted' = IF Len(evs) > 0 /\ sendToUserThrows(u) THEN << <<u, evs[1]>> >>
                  ELSE [i \in 1..Len(evs) |-> <<u, evs[i]>>]
    /\ delivered' = IF Len(evs) = 0 \/ sendToUserThrows(u) THEN <<>>
                    ELSE IF Len(evs) = 1 THEN sendToUser(u, evs[1])
                    ELSE sendToUser(u, evs[1]) \o sendToUser(u, evs[2])
    /\ UNCHANGED <<storeVars, raceVars, faulty, limitVars, lastSeen, now, nextSocketId, sockUser, connected, activeConnections>>

\* POST /api/v1/goals
PostGoal(u, id, type, target) ==
    /\ ~goals[id].exists
    /\ Saved("create", u, id,
             newGoal(u, type, IF type = "target" THEN target ELSE 0),
             201, <<"goal:created">>)

\* PUT /api/v1/goals/:id (findByIdAndUpdate: no save hook runs); of the body
\* only the status is followed, the other fields are stored as sent
PutGoal(u, id, status) ==
    IF checkOwnership(u, id) # 200 THEN Answer("update", u, id, checkOwnership(u, id))
    ELSE Saved("update", u, id,
               [goals[id] EXCEPT !.status = IF status = Absent THEN @ ELSE status],
               200, <<"goal:updated">>)

\* DELETE /api/v1/goals/:id
DeleteGoal(u, id) ==
    IF checkOwnership(u, id) # 200 THEN Answer("delete", u, id, checkOwnership(u, id))
    ELSE Saved("delete", u, id, NoGoal, 200, <<"goal:deleted">>)

\* PUT /api/v1/goals/:id/progress
PutProgress(u, id, value, note) ==
    IF checkOwnership(u, id) # 200 THEN Answer("progress", u, id, checkOwnership(u, id))
    ELSE IF value < 0 THEN Answer("progress", u, id, 400)
    ELSE /\ (note \/ value % 20 = 0) => Len(goals[id].milestones) < MaxMilestones
         /\ LET g == updateProgress(goals[id], value, note)
            IN Saved("progress", u, id, g, 200,
                     IF g.status = "completed"
                     THEN <<"goal:progress-updated", "goal:completed">>
                     ELSE <<"goal:progress-updated">>)

\* the complete route without its already-completed check
PutComplete_NoCheck(u, id, note) ==
    IF checkOwnership(u, id) # 200 THEN Answer("complete", u, id, checkOwnership(u, id))
    ELSE /\ note => Len(goals[id].notes) < MaxNotes
         /\ Saved("complete", u, id, complete(goals[id], note), 200, <<"goal:completed">>)

\* PUT /api/v1/goals/:id/complete
PutComplete(u, id, note) ==
    IF checkOwnership(u, id) # 200 THEN Answer("complete", u, id, checkOwnership(u, id))
    ELSE IF goals[id].status = "completed" THEN Answer("complete", u, id, 400)
    ELSE /\ note => Len(goals[id].notes) < MaxNotes
         /\ Saved("complete", u, id, complete(goals[id], note), 200, <<"goal:completed">>)

\* PUT /api/v1/goals/:id/pause
PutPause(u, id, reason) ==
    IF checkOwnership(u, id) # 200 THEN Answer("pause", u, id, checkOwnership(u, id))
    ELSE IF goals[id].status # "active" THEN Answer("pause", u, id, 400)
    ELSE /\ reason => Len(goals[id].notes) < MaxNotes
         /\ Saved("pause", u, id, pause(goals[id], reason), 200, <<"goal:paused">>)

\* the resume route without its paused check
PutResume_NoCheck(u, id) ==
    IF checkOwnership(u, id) # 200 THEN Answer("resume", u, id, checkOwnership(u, id))
    ELSE Saved("resume", u, id, resume(goals[id]), 200, <<"goal:resumed">>)

\* PUT /api/v1/goals/:id/resume
PutResume(u, id) ==
    IF checkOwnership(u, id) # 200 THEN Answer("resume", u, id, checkOwnership(u, id))
    ELSE IF goals[id].status # "paused" THEN Answer("resume", u, id, 400)
    ELSE Saved("resume", u, id, resume(goals[id]), 200, <<"goal:resumed">>)

\* the goal requests that write to the store
GoalMutations == {"create", "update", "delete", "progress", "complete", "pause", "resume"}

\* the request reaches its persistence call: the middleware and the route's
\* own status checks let it through
ReachesStore(op, u, id) ==
    IF op = "create" THEN ~goals[id].exists
    ELSE /\ checkOwnership(u, id) = 200
         /\ op = "complete" => goals[id].status # "completed"
         /\ op = "pause" => goals[id].status = "active"
         /\ op = "resume" => goals[id].status = "paused"

\* a failing request that had published before its persistence call
SaveFails_AfterPublish(op, u, id) ==
    /\ ReachesStore(op, u, id)
    /\ response' = 500
    /\ lastOp' = Op(op, u, NoSocket, id,
                    IF goals[id].exists THEN goals[id].status ELSE "none")
    /\ emitted' = << <<u, "goal:updated">> >>
    /\ delivered' = sendToUser(u, "goal:updated")
    /\ UNCHANGED <<storeVars, raceVars, faulty, limitVars, lastSeen, now, nextSocketId, sockUser, connected, activeConnections, goals>>

\* a goal request whose persistence call (Goal.create, save, findByIdAndUpdate,
\* findByIdAndDelete) rejects: the await throws past the sendToUser calls into
\* the catch block, next(error), and the error handler answers 500
SaveFails(op, u, id) ==
    /\ ReachesStore(op, u, id)
    /\ Answer(op, u, id, 500)

\* ------------------------------------------- health-data and workout routes
\* new Date(string): the instant, in hours after 2024-01-01T00:00:00Z
parseDate(str) ==
    CASE str = "2024-01-01T00:00:00Z" -> 0
      [] str = "2024-01-01T01:00:00+01:00" -> 0
      [] str = "2024-01-01T10:00:00Z" -> 10

\* date.setHours(0, 0, 0, 0) on a server whose time zone is UTC
startOfDay(t) == t - (t % 24)

\* the answer and the sendToUser calls of a request by u, in order; a
\* sendToUser that throws ends the calls and the error handler answers 500;
\* body is what of the request body the step records
RepliedTo(op, u, id, body, code, evs) ==
    /\ response' = IF Len(evs) > 0 /\ sendToUserThrows(u) THEN 500 ELSE code
    /\ lastOp' = Op(op, u, NoSocket, id, body)
    /\ emitted' = IF Len(evs) > 0 /\ sendToUserThrows(u) THEN << <<u, evs[1]>> >>
                  ELSE [i \in 1..Len(evs) |-> <<u, evs[i]>>]
    /\ delivered' = IF Len(evs) = 0 \/ sendToUserThrows(u) THEN <<>>
                    ELSE IF Len(evs) = 1 THEN sendToUser(u, evs[1])
                    ELSE sendToUser(u, evs[1]) \o sendToUser(u, evs[2])
    /\ UNCHANGED <<raceVars, faulty, limitVars, lastSeen, now, nextSocketId, sockUser, connected,
                   activeConnections, goals>>

Replied(op, u, id, code, evs) == RepliedTo(op, u, id, "none", code, evs)

\* a request answered without touching a collection or a socket
Refused(op, u, id, code) ==
    /\ Replied(op, u, id, code, <<>>)
    /\ UNCHANGED storeVars

\* the _id of a document created in a collection
FreshId(coll) == CHOOSE id \in DOMAIN coll : ~coll[id].exists

\* the { user: 1, date: 1 } unique index: the entries a new (user, date) collides with
SameUserAndDate(u, t) ==
    {id \in HealthIds : healthData[id].exists /\ healthData[id].user = u
                                               /\ healthData[id].date = t}

\* Joi and schema bounds of metrics.weight.value
ValidWeight(w) == w >= 20 /\ w <= 1000

\* the create without the unique index on { user, date }
PostHealth_NoUniqueIndex(u, date, weight) ==
    IF ~ValidWeight(weight)
    THEN RepliedTo("health:create", u, "none", date, 400, <<>>) /\ UNCHANGED storeVars
    ELSE /\ \E id \in HealthIds : ~healthData[id].exists
         /\ healthData' = [healthData EXCEPT ![FreshId(healthData)] =
                [exists |-> TRUE, user |-> u, date |-> parseDate(date),
                 weight |-> weight, burned |-> 0, workouts |-> {}]]
         /\ UNCHANGED workouts
         /\ RepliedTo("health:create", u, FreshId(healthData), date, 201,
                      <<"health-data:created">>)

\* POST /api/v1/health-data: validate, then HealthData.create, which the
\* unique index refuses with error code 11000 (answered 400)
PostHealth(u, date, weight) ==
    IF ~ValidWeight(weight) \/ SameUserAndDate(u, parseDate(date)) # {}
    THEN RepliedTo("health:create", u, "none", date, 400, <<>>) /\ UNCHANGED storeVars
    ELSE /\ \E id \in HealthIds : ~healthData[id].exists
         /\ healthData' = [healthData EXCEPT ![FreshId(healthData)] =
                [exists |-> TRUE, user |-> u, date |-> parseDate(date),
                 weight |-> weight, burned |-> 0, workouts |-> {}]]
         /\ UNCHANGED workouts
         /\ RepliedTo("health:create", u, FreshId(healthData), date, 201,
                      <<"health-data:created">>)

\* PUT /api/v1/health-data/:id; a date in the body is not in the update
\* schema and is stripped by validate
PutHealth(u, id, date, weight) ==
    IF checkOwnershipOf(healthData, u, id) # 200
    THEN Refused("health:update", u, id, checkOwnershipOf(healthData, u, id))
    ELSE IF ~ValidWeight(weight) THEN Refused("health:update", u, id, 400)
    ELSE /\ healthData' = [healthData EXCEPT ![id].weight = weight]
         /\ UNCHANGED workouts
         /\ Replied("health:update", u, id, 200, <<"health-data:updated">>)

\* DELETE /api/v1/health-data/:id
DeleteHealth(u, id) ==
    IF checkOwnershipOf(healthData, u, id) # 200
    THEN Refused("health:delete", u, id, checkOwnershipOf(healthData, u, id))
    ELSE /\ healthData' = [healthData EXCEPT ![id] = NoEntry]
         /\ UNCHANGED workouts
         /\ Replied("health:delete", u, id, 200, <<"health-data:deleted">>)

\* POST /api/v1/health-data/bulk with one entry: update the entry of that
\* date or create one; an entry the schema refuses is counted as an error
PostBulk(u, date, weight) ==
    /\ healthData' =
         IF ~ValidWeight(weight) THEN healthData
         ELSE IF SameUserAndDate(u, parseDate(date)) # {}
         THEN [id \in HealthIds |->
                  IF id \in SameUserAndDate(u, parseDate(date))
                  THEN [healthData[id] EXCEPT !.weight = weight]
                  ELSE healthData[id]]
         ELSE IF \E id \in HealthIds : ~healthData[id].exists
         THEN [healthData EXCEPT ![FreshId(healthData)] =
                  [exists |-> TRUE, user |-> u, date |-> parseDate(date),
                   weight |-> weight, burned |-> 0, workouts |-> {}]]
         ELSE healthData
    /\ (ValidWeight(weight) /\ SameUserAndDate(u, parseDate(date)) = {})
          => \E id \in HealthIds : ~healthData[id].exists
    /\ UNCHANGED workouts
    /\ Replied("health:bulk", u, "none", 200, <<>>)

\* workoutSchema.pre('save'): summary.caloriesBurned is the sum over the exercises
workoutPreSave(w) == [w EXCEPT !.calories = w.exCal]

\* POST /api/v1/workouts; valid: the body passes workoutSchemas.create
PostWorkout(u, valid, date, cal) ==
    IF ~valid THEN Refused("workout:create", u, "none", 400)
    ELSE /\ \E id \in WorkoutIds : ~workouts[id].exists
         /\ workouts' = [workouts EXCEPT ![FreshId(workouts)] =
                workoutPreSave([exists |-> TRUE, user |-> u, completionStatus |-> "planned",
                                date |-> parseDate(date), exCal |-> cal, calories |-> 0,
                                isTemplate |-> FALSE, isPublic |-> FALSE])]
         /\ UNCHANGED healthData
         /\ Replied("workout:create", u, FreshId(workouts), 201, <<"workout:created">>)

\* PUT /api/v1/workouts/:id (findByIdAndUpdate: no save hook runs, the
\* summary keeps its stored value)
PutWorkout(u, id, valid, date, cal) ==
    IF checkOwnershipOf(workouts, u, id) # 200
    THEN Refused("workout:update", u, id, checkOwnershipOf(workouts, u, id))
    ELSE IF ~valid THEN Refused("workout:update", u, id, 400)
    ELSE /\ workouts' = [workouts EXCEPT ![id].date = parseDate(date), ![id].exCal = cal]
         /\ UNCHANGED healthData
         /\ Replied("workout:update", u, id, 200, <<"workout:updated">>)

\* DELETE /api/v1/workouts/:id: the id is pulled from every health-data entry
DeleteWorkout(u, id) ==
    IF checkOwnershipOf(workouts, u, id) # 200
    THEN Refused("workout:delete", u, id, checkOwnershipOf(workouts, u, id))
    ELSE /\ workouts' = [workouts EXCEPT ![id] = NoWorkout]
         /\ healthData' = [h \in HealthIds |->
                IF healthData[h].exists
                THEN [healthData[h] EXCEPT !.workouts = @ \ {id}]
                ELSE healthData[h]]
         /\ Replied("workout:delete", u, id, 200, <<"workout:deleted">>)

\* PUT /api/v1/workouts/:id/start
StartWorkout(u, id) ==
    IF checkOwnershipOf(workouts, u, id) # 200
    THEN Refused("workout:start", u, id, checkOwnershipOf(workouts, u, id))
    ELSE IF workouts[id].completionStatus # "planned"
    THEN Refused("workout:start", u, id, 400)
    ELSE /\ workouts' = [workouts EXCEPT ![id] =
                workoutPreSave([@ EXCEPT !.completionStatus = "in-progress"])]
         /\ UNCHANGED healthData
         /\ Replied("workout:start", u, id, 200, <<"workout:started">>)

\* PUT /api/v1/workouts/:id/complete: the workout is completed and saved,
\* then the requester's health-data entry of the workout's day is created
\* or extended
CompleteWorkout(u, id) ==
    IF checkOwnershipOf(workouts, u, id) # 200
    THEN Refused("workout:complete", u, id, checkOwnershipOf(workouts, u, id))
    ELSE IF workouts[id].completionStatus = "completed"
    THEN Refused("workout:complete", u, id, 400)
    ELSE LET w == workoutPreSave([workouts[id] EXCEPT !.completionStatus = "completed"])
             day == startOfDay(w.date)
             found == SameUserAndDate(u, day)
         IN /\ found = {} => \E h \in HealthIds : ~healthData[h].exists
            /\ workouts' = [workouts EXCEPT ![id] = w]
            /\ healthData' =
                 IF found = {}
                 THEN [healthData EXCEPT ![FreshId(healthData)] =
                          [exists |-> TRUE, user |-> u, date |-> day, weight |-> 0,
                           burned |-> w.calories, workouts |-> {id}]]
                 ELSE [h \in HealthIds |->
                          IF h \in found
                          THEN [healthData[h] EXCEPT !.workouts = @ \cup {id},
                                                     !.burned = @ + w.calories]
                          ELSE healthData[h]]
            /\ Replied("workout:complete", u, id, 200,
                       <<"workout:completed", "workout:celebration">>)

\* the skip route without its completed test
SkipWorkout_NoCheck(u, id) ==
    IF checkOwnershipOf(workouts, u, id) # 200
    THEN Refused("workout:skip", u, id, checkOwnershipOf(workouts, u, id))
    ELSE /\ workouts' = [workouts EXCEPT ![id] =
                workoutPreSave([@ EXCEPT !.completionStatus = "skipped"])]
         /\ UNCHANGED healthData
         /\ Replied("workout:skip", u, id, 200, <<"workout:skipped">>)

\* PUT /api/v1/workouts/:id/skip
SkipWorkout(u, id) ==
    IF checkOwnershipOf(workouts, u, id) # 200
    THEN Refused("workout:skip", u, id, checkOwnershipOf(workouts, u, id))
    ELSE IF workouts[id].completionStatus = "completed"
    THEN Refused("workout:skip", u, id, 400)
    ELSE /\ workouts' = [workouts EXCEPT ![id] =
                workoutPreSave([@ EXCEPT !.completionStatus = "skipped"])]
         /\ UNCHANGED healthData
         /\ Replied("workout:skip", u, id, 200, <<"workout:skipped">>)

\* POST /api/v1/workouts/:id/template: createTemplate drops date and
\* startTime, which the schema requires, so template.save() is refused
PostTemplate(u, id, named) ==
    IF checkOwnershipOf(workouts, u, id) # 200
    THEN Refused("workout:template", u, id, checkOwnershipOf(workouts, u, id))
    ELSE Refused("workout:template", u, id, 400)

\* POST /api/v1/workouts/from-template/:templateId
FromTemplate(u, id, dated) ==
    IF ~dated THEN Refused("workout:from-template", u, id, 400)
    ELSE IF ~workouts[id].exists \/ ~workouts[id].isTemplate
    THEN Refused("workout:from-template", u, id, 404)
    ELSE IF workouts[id].user # u /\ ~workouts[id].isPublic
    THEN Refused("workout:from-template", u, id, 403)
    ELSE /\ \E x \in WorkoutIds : ~workouts[x].exists
         /\ workouts' = [workouts EXCEPT ![FreshId(workouts)] =
                workoutPreSave([workouts[id] EXCEPT !.user = u, !.isTemplate = FALSE,
                                                    !.completionStatus = "planned"])]
         /\ UNCHANGED healthData
         /\ Replied("workout:from-template", u, FreshId(workouts), 201, <<>>)

\* ------------------------------------- progress requests between their awaits
\* the log after the packets of publish pub were written
Logged(log, pub, packets) ==
    [s \in SocketIds |->
        LET f[i \in 0..Len(packets)] ==
                IF i = 0 THEN log[s]
                ELSE IF packets[i][1] = s THEN Append(f[i - 1], <<pub, packets[i][2]>>)
                ELSE f[i - 1]
        IN f[Len(packets)]]

\* document.save() of an existing document: only the paths the request
\* modified are written
storeModified(stored, loaded, saved) ==
    [f \in DOMAIN stored |-> IF saved[f] # loaded[f] THEN saved[f] ELSE stored[f]]

\* PUT /api/v1/goals/:id/progress up to its await: checkOwnership has loaded
\* req.resource, the body is validated, updateProgress has called save()
ProgressLoaded(u, id, value) ==
    IF checkOwnership(u, id) # 200
    THEN Answer("progress-load", u, id, checkOwnership(u, id))
    ELSE /\ nextPub <= MaxPublishes
         /\ pending' = [pending EXCEPT ![nextPub] =
                [pc |-> "saving", user |-> u, goal |-> id, value |-> value,
                 doc |-> goals[id]]]
         /\ nextPub' = nextPub + 1
         /\ lastOp' = Op("progress-load", u, NoSocket, id, goals[id].status)
         /\ delivered' = <<>>
         /\ emitted' = <<>>
         /\ response' = 0
         /\ UNCHANGED <<storeVars, progressLog, faulty, limitVars, lastSeen, now, nextSocketId, sockUser,
                        connected, activeConnections, goals>>

\* the save of request r: the pre-save hook runs on the request's own copy,
\* then the modified paths are written
ProgressSaved(r) ==
    /\ pending[r].pc = "saving"
    /\ LET p == pending[r]
           g == updateProgress(p.doc, p.value, FALSE)
       IN /\ goals' = [goals EXCEPT ![p.goal] = storeModified(@, p.doc, g)]
          /\ pending' = [pending EXCEPT ![r].pc = "saved", ![r].doc = g]
          /\ lastOp' = Op("progress-save", p.user, NoSocket, p.goal, p.doc.status)
    /\ delivered' = <<>>
    /\ emitted' = <<>>
    /\ response' = 0
    /\ UNCHANGED <<storeVars, nextPub, progressLog, faulty, limitVars, lastSeen, now, nextSocketId, sockUser,
                   connected, activeConnections>>

\* the rest of the handler with an await between its two sendToUser calls
ProgressPublished_AwaitBetween(r) ==
    /\ pending[r].pc \in {"saved", "celebrating"}
    /\ LET p == pending[r]
           first == p.pc = "saved"
           ev == IF first THEN "goal:progress-updated" ELSE "goal:completed"
           more == first /\ p.doc.status = "completed"
       IN /\ emitted' = << <<p.user, ev>> >>
          /\ delivered' = sendToUser(p.user, ev)
          /\ progressLog' = Logged(progressLog, r, sendToUser(p.user, ev))
          /\ response' = IF more THEN 0 ELSE 200
          /\ pending' = [pending EXCEPT ![r] =
                 IF more THEN [p EXCEPT !.pc = "celebrating"] ELSE NoRequest]
          /\ lastOp' = Op("progress", p.user, NoSocket, p.goal, p.doc.status)
    /\ UNCHANGED <<storeVars, nextPub, faulty, limitVars, lastSeen, now, nextSocketId, sockUser,
                   connected, activeConnections, goals>>

\* the rest of the handler of request r, run without a break once the save
\* has resolved: sendToUser for goal:progress-updated, for goal:completed if
\* the request's copy is completed, then res.json
ProgressPublished(r) ==
    /\ pending[r].pc = "saved"
    /\ LET p == pending[r]
           evs == IF p.doc.status = "completed"
                  THEN <<"goal:progress-updated", "goal:completed">>
                  ELSE <<"goal:progress-updated">>
           packets == IF sendToUserThrows(p.user) THEN <<>>
                      ELSE IF Len(evs) = 1 THEN sendToUser(p.user, evs[1])
                      ELSE sendToUser(p.user, evs[1]) \o sendToUser(p.user, evs[2])
       IN /\ emitted' = IF sendToUserThrows(p.user) THEN << <<p.user, evs[1]>> >>
                        ELSE [i \in 1..Len(evs) |-> <<p.user, evs[i]>>]
          /\ delivered' = packets
          /\ progressLog' = Logged(progressLog, r, packets)
          /\ response' = IF sendToUserThrows(p.user) THEN 500 ELSE 200
          /\ pending' = [pending EXCEPT ![r] = NoRequest]
          /\ lastOp' = Op("progress", p.user, NoSocket, p.goal, p.doc.status)
    /\ UNCHANGED <<storeVars, nextPub, faulty, limitVars, lastSeen, now, nextSocketId, sockUser,
                   connected, activeConnections, goals>>

\* PUT /api/v1/workouts/:id/complete up to the end of its middleware:
\* checkOwnership has awaited findById and holds the workout in req.resource
CompleteLoaded(u, id) ==
    IF checkOwnershipOf(workouts, u, id) # 200
    THEN Refused("workout:complete-load", u, id, checkOwnershipOf(workouts, u, id))
    ELSE /\ nextPub <= MaxPublishes
         /\ pending' = [pending EXCEPT ![nextPub] =
                [pc |-> "completing", user |-> u, goal |-> id, value |-> 0,
                 doc |-> workouts[id]]]
         /\ nextPub' = nextPub + 1
         /\ lastOp' = Op("workout:complete-load", u, NoSocket, id,
                         workouts[id].completionStatus)
         /\ delivered' = <<>>
         /\ emitted' = <<>>
         /\ response' = 0
         /\ UNCHANGED <<storeVars, progressLog, faulty, limitVars, lastSeen, now, nextSocketId, sockUser,
                        connected, activeConnections, goals>>

\* the handler of request r, run on the copy its middleware loaded: the
\* completed test, workout.complete(), the health-data entry of the day, the
\* two sendToUser calls
CompleteHandled(r) ==
    /\ pending[r].pc = "completing"
    /\ pending' = [pending EXCEPT ![r] = NoRequest]
    /\ LET p == pending[r]
           u == p.user
           id == p.goal
           w == workoutPreSave([p.doc EXCEPT !.completionStatus = "completed"])
           day == startOfDay(w.date)
           found == SameUserAndDate(u, day)
           refused == p.doc.completionStatus = "completed"
           evs == <<"workout:completed", "workout:celebration">>
           packets == IF refused \/ sendToUserThrows(u) THEN <<>>
                      ELSE sendToUser(u, evs[1]) \o sendToUser(u, evs[2])
       IN /\ (~refused /\ found = {}) => \E h \in HealthIds : ~healthData[h].exists
          /\ workouts' = IF refused THEN workouts
                         ELSE [workouts EXCEPT ![id] = storeModified(@, p.doc, w)]
          /\ healthData' =
               IF refused THEN healthData
               ELSE IF found = {}
               THEN [healthData EXCEPT ![FreshId(healthData)] =
                        [exists |-> TRUE, user |-> u, date |-> day, weight |-> 0,
                         burned |-> w.calories, workouts |-> {id}]]
               ELSE [h \in HealthIds |->
                        IF h \in found
                        THEN [healthData[h] EXCEPT !.workouts = @ \cup {id},
                                                   !.burned = @ + w.calories]
                        ELSE healthData[h]]
          /\ emitted' = IF refused THEN <<>>
                        ELSE IF sendToUserThrows(u) THEN << <<u, evs[1]>> >>
                        ELSE << <<u, evs[1]>>, <<u, evs[2]>> >>
          /\ delivered' = packets
          /\ progressLog' = Logged(progressLog, r, packets)
          /\ response' = IF refused THEN 400
                         ELSE IF sendToUserThrows(u) THEN 500 ELSE 200
          /\ lastOp' = Op("workout:complete", u, NoSocket, id, p.doc.completionStatus)
    /\ UNCHANGED <<nextPub, faulty, limitVars, lastSeen, now, nextSocketId, sockUser, connected,
                   activeConnections, goals>>

\* socket.on('goal:progress') with its packets logged
GoalProgressLogged(s, completed) ==
    /\ s \in connected
    /\ nextPub <= MaxPublishes
    /\ delivered' = GoalProgressPackets(s, completed)
    /\ progressLog' = Logged(progressLog, nextPub, GoalProgressPackets(s, completed))
    /\ nextPub' = nextPub + 1
    /\ lastOp' = Op("goal:progress", sockUser[s], s, "none",
                    IF completed THEN "completed" ELSE "none")
    /\ lastSeen' = [lastSeen EXCEPT ![s] = now]
    /\ emitted' = <<>>
    /\ response' = 0
    /\ UNCHANGED <<storeVars, pending, faulty, limitVars, now, nextSocketId, sockUser, connected,
                   activeConnections, goals>>

\* ------------------------------------------------ sensitiveOperationLimit
\* the key of a request: req.ip + (req.user ? req.user._id : '')
KeyOf(limiter, ip, u) == IF limiter = "login" THEN <<ip, NoUser>> ELSE <<ip, u>>

\* userAttempts.filter(time => time > windowStart)
recentAttempts(userAttempts) ==
    SelectSeq(userAttempts, LAMBDA time : time > clock - windowMs)

\* the requests let through so far
TotalAdmitted ==
    Cardinality({<<l, k, t, n>> \in Limiters \X Keys \X (0..MaxClock) \X (1..MaxAdmitted) :
                       n <= admitted[l][k][t]})

\* a limiter that counts the refused requests too
Limited_CountingRefused(limiter, ip, u) ==
    LET key == KeyOf(limiter, ip, u)
        recent == recentAttempts(attempts[limiter][key])
    IN /\ Len(attempts[limiter][key]) < 2 * max
       /\ TotalAdmitted < MaxAdmitted
       /\ attempts' = [attempts EXCEPT ![limiter][key] = Append(recent, clock)]
       /\ IF Len(recent) >= max
          THEN response' = 429 /\ admitted' = admitted
          ELSE /\ response' = 0
               /\ admitted' = [admitted EXCEPT ![limiter][key][clock] = @ + 1]
       /\ lastOp' = Op(limiter, u, NoSocket, "none", ip)
       /\ delivered' = <<>>
       /\ emitted' = <<>>
       /\ UNCHANGED <<storeVars, raceVars, faulty, clock, lastSeen, now, nextSocketId, sockUser, connected, activeConnections, goals>>

\* the middleware one sensitiveOperationLimit() call returned, run on a
\* request: 429 when the key's recent attempts number max, otherwise the
\* time is stored and the request goes on to the route
Limited(limiter, ip, u) ==
    LET key == KeyOf(limiter, ip, u)
        recent == recentAttempts(attempts[limiter][key])
    IN /\ Len(recent) < max => TotalAdmitted < MaxAdmitted
       /\ IF Len(recent) >= max
          THEN /\ response' = 429
               /\ UNCHANGED <<attempts, admitted>>
          ELSE /\ response' = 0
               /\ attempts' = [attempts EXCEPT ![limiter][key] = Append(recent, clock)]
               /\ admitted' = [admitted EXCEPT ![limiter][key][clock] = @ + 1]
       /\ lastOp' = Op(limiter, u, NoSocket, "none", ip)
       /\ delivered' = <<>>
       /\ emitted' = <<>>
       /\ UNCHANGED <<storeVars, raceVars, faulty, clock, lastSeen, now, nextSocketId, sockUser, connected, activeConnections, goals>>

\* five minutes pass
ClockTick ==
    /\ clock < MaxClock
    /\ clock' = clock + 1
    /\ lastOp' = Op("clock", NoUser, NoSocket, "none", "none")
    /\ delivered' = <<>>
    /\ emitted' = <<>>
    /\ response' = 0
    /\ UNCHANGED <<storeVars, raceVars, faulty, attempts, admitted, lastSeen, now, nextSocketId, sockUser, connected, activeConnections, goals>>

\* ---------------------------------------------------------- specifications
Init ==
    /\ now = 0
    /\ nextSocketId = 1
    /\ sockUser = [s \in SocketIds |-> NoUser]
    /\ connected = {}
    /\ activeConnections = [u \in Users |-> NoConn]
    /\ goals = [id \in GoalIds |-> NoGoal]
    /\ healthData = [id \in HealthIds |-> NoEntry]
    /\ workouts = [id \in WorkoutIds |-> NoWorkout]
    /\ delivered = <<>>
    /\ emitted = <<>>
    /\ response = 0
    /\ lastSeen = [s \in SocketIds |-> Undefined]
    /\ faulty = {}
    /\ attempts = [l \in Limiters |-> [k \in Keys |-> <<>>]]
    /\ admitted = [l \in Limiters |-> [k \in Keys |-> [t \in 0..MaxClock |-> 0]]]
    /\ clock = 0
    /\ pending = [r \in Pubs |-> NoRequest]
    /\ nextPub = 1
    /\ progressLog = [s \in SocketIds |-> <<>>]
    /\ lastOp = Op("init", NoUser, NoSocket, "none", "none")

\* the goal lifecycle through the REST routes
NextGoals ==
    \/ \E u \in Users, id \in GoalIds, ty \in GoalTypes, tv \in TargetValues :
          PostGoal(u, id, ty, tv)
    \/ \E u \in Users, id \in GoalIds, st \in Statuses \cup {Absent} :
          PutGoal(u, id, st)
    \/ \E u \in Users, id \in GoalIds : DeleteGoal(u, id)
    \/ \E u \in Users, id \in GoalIds, v \in ProgressValues \cup {-20}, n \in BOOLEAN :
          PutProgress(u, id, v, n)
    \/ \E u \in Users, id \in GoalIds, n \in BOOLEAN : PutComplete(u, id, n)
    \/ \E u \in Users, id \in GoalIds, r \in BOOLEAN : PutPause(u, id, r)
    \/ \E u \in Users, id \in GoalIds : PutResume(u, id)

Spec == Init /\ [][NextGoals]_vars

\* connections together with the progress updates they synchronise: target
\* goals, progress reported without a note
NextSync ==
    \/ \E t \in Tokens : HandshakeRejected(t)
    \/ \E t \in Tokens : Connect(t)
    \/ \E s \in SocketIds : Disconnect(s)
    \/ \E s \in SocketIds, c \in BOOLEAN : OnGoalProgress(s, c)
    \/ \E u \in Users, id \in GoalIds, tv \in TargetValues : PostGoal(u, id, "target", tv)
    \/ \E u \in Users, id \in GoalIds, v \in SyncValues : PutProgress(u, id, v, FALSE)

SpecSync == Init /\ [][NextSync]_vars

\* connections, presence and the periodic cleanup, with time passing
NextRealtime ==
    \/ \E t \in Tokens : HandshakeRejected(t)
    \/ \E t \in Tokens : Connect(t)
    \/ \E s \in SocketIds : Disconnect(s)
    \/ \E s \in SocketIds, st \in {Absent, "away"} : OnPresenceUpdate(s, st)
    \/ Sweep
    \/ Tick

SpecRealtime == Init /\ [][NextRealtime]_vars

\* the same with the setInterval timer firing again and again
SpecRealtimeFair == SpecRealtime /\ WF_vars(Sweep)

\* every inbound socket event, with connections coming and going
NextRelay ==
    \/ \E u \in Users : Connect(TokenOf(u))
    \/ \E s \in SocketIds : Disconnect(s)
    \/ \E s \in SocketIds, ev \in PlainRelays : OnRelay(s, ev)
    \/ \E s \in SocketIds : OnWorkoutComplete(s)
    \/ \E s \in SocketIds, ty \in BOOLEAN, pl \in BOOLEAN : OnCustomEvent(s, ty, pl)
    \/ \E s \in SocketIds, c \in BOOLEAN : OnGoalProgress(s, c)
    \/ \E s \in SocketIds : OnPresenceUpdate(s, Absent)

SpecRelay == Init /\ [][NextRelay]_vars

\* two users' devices, what they relay and what is published to them, with
\* connections closing and being reaped
NextIsolation ==
    \/ \E u \in Users : Connect(TokenOf(u))
    \/ \E s \in SocketIds : Disconnect(s)
    \/ \E s \in SocketIds : OnRelay(s, "sync:request")
    \/ \E u \in Users, id \in GoalIds, tv \in TargetValues : PostGoal(u, id, "target", tv)
    \/ \E u \in Users, id \in GoalIds : DeleteGoal(u, id)
    \/ Sweep
    \/ Tick

SpecIsolation == Init /\ [][NextIsolation]_vars

\* connections that keep sending events while time passes and the periodic
\* cleanup runs
NextIdle ==
    \/ \E u \in Users : Connect(TokenOf(u))
    \/ \E s \in SocketIds, c \in BOOLEAN : OnGoalProgress(s, c)
    \/ \E s \in SocketIds : OnRelay(s, "typing:start")
    \/ \E s \in SocketIds : OnPresenceUpdate(s, Absent)
    \/ Sweep
    \/ Tick

SpecIdle == Init /\ [][NextIdle]_vars

\* connections whose emit may fail, with the goal requests that publish to them
NextFaults ==
    \/ \E t \in Tokens : Connect(t)
    \/ \E s \in SocketIds : Disconnect(s)
    \/ \E s \in SocketIds : Fault(s)
    \/ \E u \in Users, id \in GoalIds, tv \in TargetValues : PostGoal(u, id, "target", tv)
    \/ \E u \in Users, id \in GoalIds, v \in SyncValues : PutProgress(u, id, v, FALSE)

SpecFaults == Init /\ [][NextFaults]_vars

\* one user's devices as they connect, with progress requests interleaved at
\* their awaits and goal:progress events arriving in between
NextRace ==
    \/ \E u \in RaceUsers : Connect(TokenOf(u))
    \/ \E u \in RaceUsers, id \in GoalIds, tv \in TargetValues : PostGoal(u, id, "target", tv)
    \/ \E u \in RaceUsers, id \in GoalIds, v \in SyncValues : ProgressLoaded(u, id, v)
    \/ \E r \in Pubs : ProgressSaved(r)
    \/ \E r \in Pubs : ProgressPublished(r)
    \/ \E s \in SocketIds, c \in BOOLEAN : GoalProgressLogged(s, c)

SpecRace == Init /\ [][NextRace]_vars

\* the health-data routes, with the workout completion that also creates entries
NextHealth ==
    \/ \E u \in Users, d \in DateStrings, w \in Weights : PostHealth(u, d, w)
    \/ \E u \in Users, id \in HealthIds, d \in DateStrings, w \in NewWeights :
          PutHealth(u, id, d, w)
    \/ \E u \in Users, id \in HealthIds : DeleteHealth(u, id)
    \/ \E u \in Users, d \in DateStrings, w \in NewWeights : PostBulk(u, d, w)
    \/ \E u \in Users, d \in OwnDates, c \in Calories : PostWorkout(u, TRUE, d, c)
    \/ \E u \in Users, id \in WorkoutIds : CompleteWorkout(u, id)

SpecHealth == Init /\ [][NextHealth]_vars

\* every route that names a goal, a workout or a health-data entry by its id,
\* with the routes that create them
NextOwnership ==
    \/ \E u \in Users, id \in GoalIds, tv \in TargetValues : PostGoal(u, id, "target", tv)
    \/ \E u \in Users, id \in GoalIds : PutGoal(u, id, Absent)
    \/ \E u \in Users, id \in GoalIds : DeleteGoal(u, id)
    \/ \E u \in Users, id \in GoalIds : PutProgress(u, id, -20, FALSE)
    \/ \E u \in Users, id \in GoalIds : PutComplete(u, id, FALSE)
    \/ \E u \in Users, id \in GoalIds : PutPause(u, id, FALSE)
    \/ \E u \in Users, id \in GoalIds : PutResume(u, id)
    \/ \E u \in Users, d \in OwnDates : PostHealth(u, d, 70)
    \/ \E u \in Users, id \in HealthIds, d \in OwnDates, w \in NewWeights :
          PutHealth(u, id, d, w)
    \/ \E u \in Users, id \in HealthIds : DeleteHealth(u, id)
    \/ \E u \in Users, d \in OwnDates : PostWorkout(u, TRUE, d, 0)
    \/ \E u \in Users, id \in WorkoutIds, v \in BOOLEAN, d \in OwnDates :
          PutWorkout(u, id, v, d, 0)
    \/ \E u \in Users, id \in WorkoutIds : DeleteWorkout(u, id)
    \/ \E u \in Users, id \in WorkoutIds : StartWorkout(u, id)
    \/ \E u \in Users, id \in WorkoutIds : CompleteWorkout(u, id)
    \/ \E u \in Users, id \in WorkoutIds : SkipWorkout(u, id)
    \/ \E u \in Users, id \in WorkoutIds, n \in BOOLEAN : PostTemplate(u, id, n)
    \/ \E u \in Users, id \in WorkoutIds, d \in BOOLEAN : FromTemplate(u, id, d)

SpecOwnership == Init /\ [][NextOwnership]_vars

\* the percentage computation on its own: a fresh target goal is created and
\* given one progress value
CreateAndUpdate(u, id, target, value) ==
    /\ goals' = [goals EXCEPT ![id] = updateProgress(newGoal(u, "target", target), value, FALSE)]
    /\ lastOp' = Op("create+progress", u, NoSocket, id, "none")
    /\ delivered' = <<>>
    /\ emitted' = <<>>
    /\ response' = 0
    /\ UNCHANGED <<storeVars, raceVars, faulty, limitVars, lastSeen, now, nextSocketId, sockUser, connected, activeConnections>>

\* goal.updateProgress(value, note) called on a stored goal
UpdateProgress(id, value, note) ==
    /\ goals[id].exists
    /\ (note \/ value % 20 = 0) => Len(goals[id].milestones) < MaxHistory
    /\ goals' = [goals EXCEPT ![id] = updateProgress(goals[id], value, note)]
    /\ lastOp' = Op("updateProgress", goals[id].user, NoSocket, id,
                    IF note THEN "note" ELSE "none")
    /\ delivered' = <<>>
    /\ emitted' = <<>>
    /\ response' = 0
    /\ UNCHANGED <<storeVars, raceVars, faulty, limitVars, lastSeen, now, nextSocketId, sockUser, connected, activeConnections>>

\* requests to the rate-limited account routes while time passes
NextLimit ==
    \/ \E ip \in Ips : Limited("login", ip, NoUser)
    \/ \E ip \in Ips, u \in Users : Limited("change-password", ip, u)
    \/ ClockTick

SpecLimit == Init /\ [][NextLimit]_vars

\* complete requests for a workout taken from await to await, and the
\* requester's devices
NextComplete ==
    \/ \E u \in RaceUsers : Connect(TokenOf(u))
    \/ \E u \in Users, d \in OwnDates, c \in Calories : PostWorkout(u, TRUE, d, c)
    \/ \E u \in Users, id \in WorkoutIds : CompleteLoaded(u, id)
    \/ \E r \in Pubs : CompleteHandled(r)

SpecComplete == Init /\ [][NextComplete]_vars

\* the goal requests with a store that may fail, and the owner's devices
NextPersist ==
    \/ \E u \in RaceUsers : Connect(TokenOf(u))
    \/ \E u \in Users, id \in GoalIds, tv \in TargetValues : PostGoal(u, id, "target", tv)
    \/ \E u \in Users, id \in GoalIds : PutGoal(u, id, Absent)
    \/ \E u \in Users, id \in GoalIds : DeleteGoal(u, id)
    \/ \E u \in Users, id \in GoalIds, v \in SyncValues : PutProgress(u, id, v, FALSE)
    \/ \E u \in Users, id \in GoalIds : PutComplete(u, id, FALSE)
    \/ \E u \in Users, id \in GoalIds : PutPause(u, id, FALSE)
    \/ \E u \in Users, id \in GoalIds : PutResume(u, id)
    \/ \E op \in GoalMutations, u \in Users, id \in GoalIds : SaveFails(op, u, id)

SpecPersist == Init /\ [][NextPersist]_vars

\* goals of every type, their progress reported with and without a note
NextMilestones ==
    \/ \E u \in Users, id \in GoalIds, ty \in GoalTypes, tv \in TargetValues :
          PostGoal(u, id, ty, tv)
    \/ \E id \in GoalIds, v \in MilestoneValues, n \in BOOLEAN :
          UpdateProgress(id, v, n)
    \/ \E u \in Users, id \in GoalIds : DeleteGoal(u, id)

SpecMilestones == Init /\ [][NextMilestones]_vars

NextPercentage ==
    \E u \in Users, id \in GoalIds, t \in PctTargets, v \in 0..MaxValue :
        CreateAndUpdate(u, id, t, v)

SpecPercentage == Init /\ [][NextPercentage]_vars

\* ------------------------------------------------------------------ claims
\* the events one socket was sent by the last step, in order
EventsTo(s) ==
    LET f[i \in 0..Len(delivered)] ==
            IF i = 0 THEN <<>>
            ELSE IF delivered[i][1] = s THEN Append(f[i - 1], delivered[i][2])
            ELSE f[i - 1]
    IN f[Len(delivered)]

\* the event names of the sendToUser calls of the last step, in order
EmittedEvents == [i \in 1..Len(emitted) |-> emitted[i][2]]

\* the sockets the registry holds for a user
Registered(u) ==
    IF activeConnections[u] = NoConn THEN {} ELSE {activeConnections[u].socketId}

ProgressThenCompleted == <<"goal:progress-updated", "goal:completed">>

\* C1: every sendToUser call for a user with N open connections is delivered
\* to exactly N connections (sendToUser takes no excluded connection id).
C1_PublishReachesAllConnections ==
    \A i \in 1..Len(emitted) :
        Cardinality({k \in 1..Len(delivered) : delivered[k][2] = emitted[i][2]})
            = Cardinality(Room(emitted[i][1]))

\* C2: when a progress update reaches the target, through the REST progress
\* route or through a socket's goal:progress event with completed set, every
\* other open connection of the same user receives goal:progress-updated and
\* then goal:completed.
C2_OtherDeviceSeesProgressThenCompleted ==
    /\ (/\ lastOp.op = "progress"
        /\ response = 200
        /\ lastOp.from = "active"
        /\ goals[lastOp.goal].status = "completed"
        /\ Cardinality(Room(lastOp.user)) >= 2)
       => \A b \in Room(lastOp.user) : EventsTo(b) = ProgressThenCompleted
    /\ (lastOp.op = "goal:progress" /\ lastOp.from = "completed")
       => \A b \in Room(lastOp.user) \ {lastOp.socket} :
              EventsTo(b) = ProgressThenCompleted

\* C3: the registry's connections of each user are exactly that user's open
\* sockets, and no socket is registered under two users.
C3_RegistryEqualsLiveSockets ==
    /\ \A u \in Users : Registered(u) = Room(u)
    /\ \A u, w \in Users : u # w => Registered(u) \cap Registered(w) = {}

\* C4: updateProgress(v) with v >= target.value on an active target goal leaves
\* the goal completed, and the step emits exactly goal:progress-updated
\* followed by goal:completed.
C4_ReachingTargetCompletes ==
    \A id \in GoalIds :
        (/\ lastOp.op = "progress"
         /\ lastOp.goal = id
         /\ response = 200
         /\ lastOp.from = "active"
         /\ goals[id].type = "target"
         /\ goals[id].current >= goals[id].target)
        => /\ goals[id].status = "completed"
           /\ EmittedEvents = ProgressThenCompleted

C4_Witness ==
    \E id \in GoalIds :
        /\ lastOp.op = "progress"
        /\ lastOp.goal = id
        /\ response = 200
        /\ lastOp.from = "active"
        /\ goals[id].type = "target"
        /\ goals[id].current > goals[id].target
        /\ goals[id].status = "completed"

\* C5: a complete request on a goal that is already completed changes nothing
\* of the goal, emits no event, and is answered 400 once the ownership check
\* has passed.
C5_CompleteOnCompletedRejected ==
    [][\A id \in GoalIds :
          (/\ lastOp'.op = "complete"
           /\ lastOp'.goal = id
           /\ goals[id].exists
           /\ goals[id].status = "completed")
          => /\ goals' = goals
             /\ emitted' = <<>>
             /\ delivered' = <<>>
             /\ response' # 200
             /\ checkOwnership(lastOp'.user, id) = 200 => response' = 400]_vars

C5_Witness ==
    /\ lastOp.op = "complete"
    /\ lastOp.from = "completed"
    /\ response = 400
    /\ goals[lastOp.goal].status = "completed"

\* C6: once a goal's status is completed no step changes it.
C6_CompletedIsTerminal ==
    [][\A id \in GoalIds :
          (goals[id].exists /\ goals[id].status = "completed" /\ goals'[id].exists)
          => goals'[id].status = "completed"]_vars

\* C7: a progress request on a goal that is not active fails: the goal is
\* unchanged, no event is emitted and the answer is not a success.
C7_ProgressOnlyWhenActive ==
    [][\A id \in GoalIds :
          (/\ lastOp'.op = "progress"
           /\ lastOp'.goal = id
           /\ goals[id].exists
           /\ goals[id].status # "active")
          => /\ goals' = goals
             /\ emitted' = <<>>
             /\ response' # 200]_vars

\* C8: every step that moves a goal into completed emits goal:completed to
\* the owner's channel exactly once.
C8_CompletionEmitsCompletedOnce ==
    \A id \in GoalIds :
        (/\ lastOp.goal = id
         /\ goals[id].exists
         /\ goals[id].status = "completed"
         /\ lastOp.from # "completed")
        => Cardinality({i \in 1..Len(emitted) :
                           emitted[i] = <<goals[id].user, "goal:completed">>}) = 1

\* the integer nearest to n / d, the upper one of two equally near
NearestInt(n, d) ==
    CHOOSE k \in 0..(n \div d + 1) : (2 * k - 1) * d <= 2 * n /\ 2 * n < (2 * k + 1) * d

Clamp(x, lo, hi) == IF x < lo THEN lo ELSE IF x > hi THEN hi ELSE x

\* C9: the stored percentage of a target goal is round(v / target * 100)
\* clamped to 0..100; it is never below that of a smaller v; with target 65
\* it is 50 at v = 32.5 and 100 at v = 100.
C9_PercentageClampedMonotonic ==
    \A id \in GoalIds :
        (goals[id].exists /\ goals[id].type = "target")
        => LET p == goals[id].percentage
               v == goals[id].current
               t == goals[id].target
           IN /\ p = Clamp(NearestInt(100 * v, t), 0, 100)
              /\ p >= 0 /\ p <= 100
              /\ \A w \in 0..v : Percentage(w, t) <= p
              /\ (t = 130 /\ v = 65) => p = 50
              /\ (t = 130 /\ v = 200) => p = 100

C9_Witness ==
    \E id \in GoalIds :
        /\ goals[id].exists
        /\ goals[id].target = 130
        /\ goals[id].current = 200
        /\ goals[id].percentage = 100

\* C10: a sweep closes and unregisters every open connection idle for more
\* than the threshold, and leaves open (and registered, if it was) every
\* other one.
C10_SweepReapsExactlyTheIdle ==
    [][lastOp'.op = "sweep"
       => \A s \in connected :
             IF now - lastSeen[s] > inactiveThreshold
             THEN /\ s \notin connected'
                  /\ \A u \in Users : activeConnections'[u].socketId # s
             ELSE /\ s \in connected'
                  /\ (\E u \in Users : activeConnections[u].socketId = s)
                     => (\E u \in Users : activeConnections'[u].socketId = s)]_vars

\* C11: a socket is a member of a user room, stored in the registry or sent an
\* event only if the handshake gave it the id of an existing active account
\* (socket.userId is assigned by authenticateSocket after the token verified
\* and the account was found active); a refused handshake admits no socket,
\* stores nothing and sends nothing.
C11_OnlyAuthenticatedSocketsAdmitted ==
    [][/\ \A s \in SocketIds :
             (\/ s \in connected'
              \/ \E u \in Users : activeConnections'[u].socketId = s
              \/ \E i \in 1..Len(delivered') : delivered'[i][1] = s)
             => sockUser'[s] \in Users
       /\ lastOp'.op = "handshake-rejected"
          => /\ connected' = connected
             /\ activeConnections' = activeConnections
             /\ sockUser' = sockUser
             /\ nextSocketId' = nextSocketId
             /\ delivered' = <<>>]_vars

C11_Witness ==
    /\ lastOp.op = "handshake-rejected"
    /\ lastOp.from = "Authentication error: Invalid user"
    /\ connected # {}
    /\ \E u \in Users : activeConnections[u] # NoConn

\* C15: once the disconnect handler of a connection that was registered at
\* its connect has run, the registry holds no connection for that user and
\* holds that connection under no user, and deleting the entry once more
\* leaves the registry as it is.
C15_RegisterThenUnregisterLeavesNothing ==
    lastOp.op = "disconnect"
    => /\ Registered(lastOp.user) = {}
       /\ \A u \in Users : activeConnections[u].socketId # lastOp.socket
       /\ unregister(activeConnections, lastOp.user) = activeConnections

C15_Witness ==
    /\ lastOp.op = "disconnect"
    /\ Registered(lastOp.user) = {}
    /\ \E u \in Users : u # lastOp.user /\ activeConnections[u] # NoConn

\* C16: a resume request on a goal that is not paused and a pause request on
\* a goal that is not active change nothing of the goal (status and notes
\* included), emit no event, and are answered 400 once the ownership check
\* has passed.
C16_PauseResumeRejectedOutsideTheirState ==
    [][\A id \in GoalIds :
          (/\ lastOp'.goal = id
           /\ goals[id].exists
           /\ \/ lastOp'.op = "resume" /\ goals[id].status # "paused"
              \/ lastOp'.op = "pause" /\ goals[id].status # "active")
          => /\ goals' = goals
             /\ emitted' = <<>>
             /\ delivered' = <<>>
             /\ response' # 200
             /\ checkOwnership(lastOp'.user, id) = 200 => response' = 400]_vars

C16_Witness ==
    /\ lastOp.op = "resume"
    /\ lastOp.from = "active"
    /\ response = 400
    /\ goals[lastOp.goal].status = "active"
    /\ goals[lastOp.goal].notes # <<>>

\* the sockets a registry holds
AllRegistered(reg) == {reg[u].socketId : u \in {x \in Users : reg[x] # NoConn}}

\* C19: no step unregisters a connection that stays open: a connect displaces
\* no registered connection, and a disconnect or a sweep removes from the
\* registry only the connections it closes.
C19_OpenConnectionsStayRegistered ==
    [][\A s \in AllRegistered(activeConnections) :
          s \in connected' => s \in AllRegistered(activeConnections')]_vars

\* C20: a resume request that succeeds leaves the goal active, whatever its
\* type and stored progress.
C20_ResumeLeavesGoalActive ==
    \A id \in GoalIds :
        (lastOp.op = "resume" /\ lastOp.goal = id /\ response = 200)
        => goals[id].status = "active"

\* C12: when a publish reaches a connection whose emit fails, the failure is
\* caught (the request still gets its success answer), every event of the
\* publish is still handed to sendToUser, and the failing connection, and no
\* other, is removed from the registry.
C12_FailingEmitCaughtAndUnregistered ==
    [][\A u \in Users :
          (/\ emitted' # <<>>
           /\ emitted'[1][1] = u
           /\ sendToUserThrows(u))
          => /\ response' \in {200, 201}
             /\ (goals'[lastOp'.goal].status = "completed" /\ lastOp'.op = "progress")
                => Len(emitted') = 2
             /\ activeConnections'[u] = NoConn
             /\ \A w \in Users \ {u} : activeConnections'[w] = activeConnections[w]]_vars

\* C13: a REST goal request that stored its change answers with its success
\* status even when emitting the real-time event fails.
C13_StoredChangeAnswersSuccess ==
    [][(lastOp'.op \in {"create", "progress"} /\ goals' # goals)
       => response' \in {200, 201}]_vars

\* C14: at every connection the events of one publish are received one after
\* the other, goal:progress-updated before goal:completed, with no event of
\* another publish between them, however progress requests and goal:progress
\* events of the same user interleave.
C14_PublishesNotInterleaved ==
    \A s \in SocketIds :
        \A i, j \in 1..Len(progressLog[s]) :
            (i < j /\ progressLog[s][i][1] = progressLog[s][j][1])
            => /\ j = i + 1
               /\ progressLog[s][i][2] = "goal:progress-updated"
               /\ progressLog[s][j][2] = "goal:completed"

C14_Witness ==
    \E s \in SocketIds, r \in Pubs :
        /\ pending[r].pc = "saved"
        /\ pending[r].doc.status = "completed"
        /\ Len(progressLog[s]) = 2
        /\ progressLog[s][1][1] # r
        /\ progressLog[s][1][1] = progressLog[s][2][1]
        /\ lastOp.op = "progress"

\* C17: a request on a route that names a goal, a workout or a health-data
\* entry by its id, made by a user who is neither the owner of that resource
\* nor an admin, is answered 403 whatever its body (the ownership check runs
\* before the body is validated), changes no collection and emits no event.
C17_NonOwnerRejectedBeforeHandler ==
    [][\A u \in Users :
          (/\ lastOp'.user = u
           /\ Role[u] # "admin"
           /\ \/ /\ lastOp'.op \in {"update", "delete", "progress", "complete",
                                     "pause", "resume"}
                 /\ lastOp'.goal \in GoalIds
                 /\ goals[lastOp'.goal].exists
                 /\ goals[lastOp'.goal].user # u
              \/ /\ lastOp'.op \in {"health:update", "health:delete"}
                 /\ healthData[lastOp'.goal].exists
                 /\ healthData[lastOp'.goal].user # u
              \/ /\ lastOp'.op \in {"workout:update", "workout:delete", "workout:start",
                                     "workout:complete", "workout:skip", "workout:template"}
                 /\ workouts[lastOp'.goal].exists
                 /\ workouts[lastOp'.goal].user # u)
          => /\ response' = 403
             /\ goals' = goals
             /\ healthData' = healthData
             /\ workouts' = workouts
             /\ emitted' = <<>>
             /\ delivered' = <<>>]_vars

C17_Witness ==
    /\ lastOp.op = "health:update"
    /\ lastOp.user = "u1"
    /\ response = 403
    /\ healthData[lastOp.goal].exists
    /\ healthData[lastOp.goal].user = "u2"
    /\ \E g \in GoalIds : goals[g].exists /\ goals[g].user = "u2"
    /\ \E w \in WorkoutIds : workouts[w].exists /\ workouts[w].user = "u2"

\* C18: no two health-data entries have the same user and date, and a create
\* for a user and date that already have an entry is answered 400, leaves
\* the collection as it is and emits no event.
C18_OneEntryPerUserAndDate ==
    [][/\ \A a, b \in HealthIds :
             (a # b /\ healthData'[a].exists /\ healthData'[b].exists)
             => ~(/\ healthData'[a].user = healthData'[b].user
                  /\ healthData'[a].date = healthData'[b].date)
       /\ (/\ lastOp'.op = "health:create"
           /\ SameUserAndDate(lastOp'.user, parseDate(lastOp'.from)) # {})
          => /\ response' = 400
             /\ healthData' = healthData
             /\ emitted' = <<>>
             /\ delivered' = <<>>]_vars

C18_Witness ==
    /\ lastOp.op = "health:create"
    /\ lastOp.from = "2024-01-01T01:00:00+01:00"
    /\ response = 400
    /\ \E h \in HealthIds :
          /\ healthData[h].exists
          /\ healthData[h].user = lastOp.user
          /\ healthData[h].date = 0
          /\ healthData[h].weight = 70
    /\ \E h \in HealthIds : ~healthData[h].exists


\* the last step moved its goal into completed
MovedIntoCompleted ==
    /\ lastOp.goal \in GoalIds
    /\ goals[lastOp.goal].exists
    /\ goals[lastOp.goal].status = "completed"
    /\ lastOp.from # "completed"

\* C21: a progress request that does not move the goal into completed emits
\* goal:progress-updated and nothing else, and goal:completed is emitted only
\* by a step that itself moved the goal into completed.
C21_CompletedOnlyOnTransition ==
    /\ (lastOp.op = "progress" /\ response = 200 /\ ~MovedIntoCompleted)
       => EmittedEvents = <<"goal:progress-updated">>
    /\ (\E i \in 1..Len(emitted) : emitted[i][2] = "goal:completed")
       => MovedIntoCompleted


\* the events a client sends
InboundEvents == PlainRelays \cup {"workout:complete", "custom:event",
                                   "goal:progress", "presence:update"}

\* C22: every inbound event stamps the sending connection's registry record
\* with the current time, and a sweep never closes a connection whose last
\* inbound event (or connect) lies within the idle threshold.
C22_InboundEventRefreshesActivity ==
    [][/\ (/\ lastOp'.op \in InboundEvents
           /\ activeConnections[lastOp'.user].socketId = lastOp'.socket)
          => activeConnections'[lastOp'.user].lastActivity = now
       /\ lastOp'.op = "sweep"
          => \A s \in connected :
                now - lastSeen[s] <= inactiveThreshold => s \in connected']_vars


\* C23: a presence:update changes the registry record of the connection that
\* sent it and no other record.
C23_PresenceStampsOwnRecordOnly ==
    [][lastOp'.op = "presence:update"
       => \A u \in Users :
             activeConnections'[u] # activeConnections[u]
             => activeConnections[u].socketId = lastOp'.socket]_vars


\* socket s is open and has been idle for more than the threshold
Overdue(s) == s \in connected /\ now - lastSeen[s] > inactiveThreshold

\* C24: with the sweep timer firing again and again, an open connection idle
\* for more than the threshold does not stay so forever: it is disconnected
\* (or becomes active again).
C24_IdleConnectionEventuallyReaped ==
    \A s \in SocketIds : Overdue(s) ~> ~Overdue(s)


\* how many times the packets sent hold event ev for socket s
TimesIn(sent, s, ev) == Cardinality({i \in 1..Len(sent) : sent[i] = <<s, ev>>})

\* how many times the last step sent event ev to socket s
TimesSent(s, ev) == TimesIn(delivered, s, ev)

\* C25: for every connection a sweep closes, each connection of the same user
\* that stays open is sent device:disconnected exactly once; the sweep sends
\* nothing else to anybody and reports no error.
C25_ReapNotifiesRemainingDevicesOnce ==
    [][lastOp'.op = "sweep"
       => /\ \A s \in connected \ connected' :
                \A b \in connected' :
                   sockUser[b] = sockUser[s]
                   => TimesSent(b, "device:disconnected")' = 1
          /\ \A i \in 1..Len(delivered') :
                /\ delivered'[i][2] = "device:disconnected"
                /\ delivered'[i][1] \in connected'
                /\ \E s \in connected \ connected' :
                      sockUser[s] = sockUser[delivered'[i][1]]
          /\ emitted' = <<>>
          /\ response' = 0]_vars

C25_Witness ==
    /\ lastOp.op = "sweep"
    /\ \E s \in SocketIds \ connected, b \in connected :
          /\ sockUser[s] = sockUser[b]
          /\ lastSeen[s] = Undefined
          /\ EventsTo(b) = <<"device:disconnected">>


C27_PublishSeesRegistrationsWhole ==
    [][emitted' # <<>>
       => LET u == emitted'[1][1]
          IN /\ \A i \in 1..Len(delivered') : delivered'[i][1] \in Room(u)
             /\ \A s \in Room(u) :
                   \A j \in 1..Len(emitted') :
                      \E i \in 1..Len(delivered') :
                         delivered'[i] = <<s, emitted'[j][2]>>]_vars


\* the event the other devices are to receive for an inbound event
ExpectedRelay(ev) ==
    CASE ev = "health-data:update" -> "health-data:updated"
      [] ev = "goal:progress" -> "goal:progress-updated"
      [] ev = "workout:start" -> "workout:started"
      [] ev = "workout:update" -> "workout:updated"
      [] ev = "workout:complete" -> "workout:completed"
      [] ev = "notification:read" -> "notification:marked-read"
      [] ev = "typing:start" -> "typing:user-started"
      [] ev = "typing:stop" -> "typing:user-stopped"
      [] ev = "sync:request" -> "sync:requested"
      [] ev = "sync:response" -> "sync:data"
      [] ev = "presence:update" -> "presence:updated"
      [] ev = "custom:event" -> "custom:event"

\* C28: for every inbound event that is relayed (custom:event when it has a
\* type and a payload), each other open connection of the sender's user
\* receives the relayed event exactly once and the sender does not receive it.
C28_RelayReachesOthersNotSender ==
    [][(lastOp'.op \in InboundEvents /\ lastOp'.from # "untyped")
       => LET s == lastOp'.socket
              ev == ExpectedRelay(lastOp'.op)
          IN /\ \A b \in Room(sockUser[s]) \ {s} : TimesIn(delivered', b, ev) = 1
             /\ TimesIn(delivered', s, ev) = 0]_vars

C28_Witness ==
    /\ lastOp.op = "custom:event"
    /\ lastOp.from = "typed"
    /\ Cardinality(Room(lastOp.user)) = 3
    /\ \A b \in Room(lastOp.user) \ {lastOp.socket} : EventsTo(b) = <<"custom:event">>
    /\ EventsTo(lastOp.socket) = <<>>


\* C29: whatever the last step sent went to connections of one user: of the
\* user sendToUser was called for, of the user whose connection sent the
\* relayed event, or (a close or a reap) of the user whose connection closed;
\* never to a connection authenticated as somebody else.
C29_NoDeliveryAcrossUsers ==
    \A i \in 1..Len(delivered) :
        LET b == delivered[i][1]
        IN /\ sockUser[b] \in Users
           /\ emitted # <<>> => sockUser[b] = emitted[1][1]
           /\ lastOp.socket # NoSocket => sockUser[b] = sockUser[lastOp.socket]
           /\ lastOp.op = "sweep"
              => \E s \in SocketIds \ connected :
                    sockUser[s] = sockUser[b] /\ lastSeen[s] = Undefined

C29_Witness ==
    /\ lastOp.op = "create"
    /\ delivered = << <<activeConnections["u1"].socketId, "goal:created">> >>
    /\ \E s \in connected : sockUser[s] = "u2"
    /\ \E s \in SocketIds \ connected : sockUser[s] = "u1"
    /\ now > inactiveThreshold


\* C30: a goal moves into cancelled or failed only from active or paused; a
\* goal already completed, cancelled or failed keeps its status.
C30_CancelFailOnlyFromOpenGoal ==
    [][\A id \in GoalIds :
          (/\ goals[id].exists
           /\ goals'[id].exists
           /\ goals'[id].status \in {"cancelled", "failed"}
           /\ goals'[id].status # goals[id].status)
          => goals[id].status \in {"active", "paused"}]_vars


\* why a credential is to be refused, of the four causes; "other" otherwise
Cause(token) ==
    CASE token.kind = "none" -> "missing"
      [] token.kind = "bad" -> "invalid"
      [] token.kind = "expired" -> "expired"
      [] token.kind = "valid" /\ token.id \in InactiveUsers -> "inactive-account"
      [] OTHER -> "other"

\* C31: the reason a refused handshake reports tells the cause: no two
\* credentials refused for different causes (missing, invalid, expired,
\* inactive account) are given the same reason.
C31_ReasonTellsCause ==
    lastOp.op = "handshake-rejected"
    => \A t1, t2 \in {t \in Tokens : Cause(t) # "other"} :
          (authenticateSocket(t1) = lastOp.from /\ authenticateSocket(t2) = lastOp.from)
          => Cause(t1) = Cause(t2)


\* C32: updateProgress(v, note) appends one milestone holding v and the note
\* when a note is supplied or v is a multiple of 10 (0 included) and appends
\* nothing otherwise; the records already there stay as they were.
C32_MilestoneIffNoteOrMultipleOfTen ==
    [][lastOp'.op = "updateProgress"
       => LET id == lastOp'.goal
              v == goals'[id].current
              note == lastOp'.from = "note"
              old == goals[id].milestones
          IN goals'[id].milestones =
                IF note \/ v % 20 = 0
                THEN Append(old, [value |-> v, note |-> note])
                ELSE old]_vars

C32_Witness ==
    /\ lastOp.op = "updateProgress"
    /\ \E id \in GoalIds :
          /\ goals[id].exists
          /\ goals[id].milestones = << [value |-> 0, note |-> FALSE],
                                       [value |-> 65, note |-> TRUE] >>


\* C33: whenever a target goal with a positive target is stored, its
\* percentage is round(current / target * 100) clamped to 0..100, whichever
\* request (create, progress, complete, pause, resume) saved it last.
C33_PercentageDerivedAfterEverySave ==
    \A id \in GoalIds :
        (goals[id].exists /\ goals[id].type = "target" /\ goals[id].target > 0)
        => goals[id].percentage =
              Clamp(NearestInt(100 * goals[id].current, goals[id].target), 0, 100)

C33_Witness ==
    /\ lastOp.op = "complete"
    /\ response = 200
    /\ goals[lastOp.goal].type = "target"
    /\ goals[lastOp.goal].status = "completed"
    /\ goals[lastOp.goal].current = 65
    /\ goals[lastOp.goal].percentage = 50


\* C34: a complete request accepted on a goal that was not completed leaves
\* it completed, with completedAt set and percentage 100, whatever its type
\* and stored progress.
C34_CompleteLeavesHundredPercent ==
    (lastOp.op = "complete" /\ response = 200 /\ lastOp.from # "completed")
    => /\ goals[lastOp.goal].status = "completed"
       /\ goals[lastOp.goal].completedAt # Undefined
       /\ goals[lastOp.goal].percentage = 100


\* C35: every stored goal whose status is completed has completedAt set.
C35_CompletedHasCompletedAt ==
    \A id \in GoalIds :
        (goals[id].exists /\ goals[id].status = "completed")
        => goals[id].completedAt # Undefined


\* the store holds what the last step's request was to write
Persisted ==
    LET id == lastOp.goal
    IN CASE lastOp.op = "create" -> goals[id].exists /\ lastOp.from = "none"
         [] lastOp.op = "delete" -> ~goals[id].exists
         [] lastOp.op = "complete" -> goals[id].exists /\ goals[id].status = "completed"
         [] lastOp.op = "pause" -> goals[id].exists /\ goals[id].status = "paused"
         [] lastOp.op = "resume" -> goals[id].exists /\ goals[id].status # "paused"
         [] OTHER -> goals[id].exists

\* C36: a goal request emits its event only when its write to the store
\* succeeded, and is then answered with success; a request whose write failed
\* (or that was refused) leaves the store as it was, emits nothing, and is
\* answered with the error.
C36_EventOnlyAfterPersistence ==
    [][lastOp'.op \in GoalMutations
       => /\ emitted' # <<>> => (response' \in {200, 201} /\ Persisted')
          /\ response' \notin {200, 201}
             => (emitted' = <<>> /\ delivered' = <<>> /\ goals' = goals)]_vars

C36_Witness ==
    /\ lastOp.op = "complete"
    /\ response = 500
    /\ goals[lastOp.goal].status = "active"
    /\ goals[lastOp.goal].user = lastOp.user
    /\ activeConnections[lastOp.user] # NoConn
    /\ emitted = <<>>


\* how many times socket s has been sent event ev so far
TimesLogged(s, ev) ==
    Cardinality({i \in 1..Len(progressLog[s]) : progressLog[s][i][2] = ev})

\* C37: however the complete requests for a workout interleave, the workout's
\* calories are added to the day's health-data entry at most once and no
\* connection is sent workout:completed for it more than once.
C37_WorkoutCountedOnce ==
    /\ \A h \in HealthIds, w \in WorkoutIds :
          (healthData[h].exists /\ healthData[h].workouts = {w})
          => healthData[h].burned <= workouts[w].calories
    /\ \A s \in SocketIds : TimesLogged(s, "workout:completed") <= 1


\* C38: a start request changes a workout only when it is planned, and then
\* to in-progress; complete and skip requests the middleware lets through
\* are answered 400 on a completed workout; and no request changes the
\* status of a completed workout.
C38_WorkoutLifecycle ==
    [][\A id \in WorkoutIds :
          /\ (lastOp'.op = "workout:start" /\ lastOp'.goal = id /\ workouts[id].exists)
             => IF workouts[id].completionStatus = "planned" /\ response' = 200
                THEN workouts'[id].completionStatus = "in-progress"
                ELSE workouts' = workouts /\ response' # 200
          /\ (/\ lastOp'.op \in {"workout:complete", "workout:skip"}
              /\ lastOp'.goal = id
              /\ workouts[id].exists
              /\ workouts[id].completionStatus = "completed"
              /\ checkOwnershipOf(workouts, lastOp'.user, id) = 200)
             => (response' = 400 /\ workouts' = workouts /\ healthData' = healthData)
          /\ (/\ workouts[id].exists
              /\ workouts[id].completionStatus = "completed"
              /\ workouts'[id].exists)
             => workouts'[id].completionStatus = "completed"]_vars

C38_Witness ==
    /\ lastOp.op = "workout:skip"
    /\ response = 400
    /\ workouts[lastOp.goal].exists
    /\ workouts[lastOp.goal].completionStatus = "completed"
    /\ workouts[lastOp.goal].user = lastOp.user


\* the requests of key k that limiter l let through at the times in (lo, hi]
AdmittedBetween(adm, l, k, lo, hi) ==
    Cardinality({<<t, n>> \in (0..MaxClock) \X (1..MaxAdmitted) :
                    lo < t /\ t <= hi /\ n <= adm[l][k][t]})

\* C39: a request to a rate limiter is answered 429 exactly when max requests
\* of its key (ip plus user id) were let through within the windowMs before
\* it; a request answered 429 leaves the limiter's record as it was, so it
\* does not count toward the limit, and any other request is counted once; no
\* key has more than max requests let through in any window.
C39_RejectedExactlyAtMax ==
    /\ [][lastOp'.op \in Limiters =>
            LET l == lastOp'.op
                k == KeyOf(l, lastOp'.from, lastOp'.user)
                before == AdmittedBetween(admitted, l, k, clock - windowMs, clock)
            IN /\ (response' = 429) <=> (before = max)
               /\ response' = 429 => attempts' = attempts /\ admitted' = admitted
               /\ response' # 429 =>
                    admitted' = [admitted EXCEPT ![l][k][clock] = @ + 1]]_vars
    /\ [](\A l \in Limiters, k \in Keys, a \in (0 - windowMs)..MaxClock :
            AdmittedBetween(admitted, l, k, a, a + windowMs) <= max)

\* a login is refused while the window holds admitted logins of several times
C39_Witness ==
    /\ lastOp.op = "login"
    /\ response = 429
    /\ clock > 0
    /\ admitted["login"][KeyOf("login", lastOp.from, NoUser)][0] > 0
    /\ admitted["login"][KeyOf("login", lastOp.from, NoUser)][clock] > 0

====
